---- MODULE Spec2Model ----
(***************************************************************************)
(* Queue / care-session lifecycle engine of the clinic backend             *)
(* (QueueService in src/src/common/error.filter.ts).                       *)
(*                                                                         *)
(* The store (Prisma: careSession, patient) is the shared state.  Every    *)
(* request is a call running in a slot; each awaited store operation of    *)
(* a call is one atomic step, and calls in different slots interleave      *)
(* between those steps.  Strings are sequences of character codes          *)
(* (48..57 the digits, 46 the dot, 85 the letter U), so that formatting,   *)
(* parsing and string ordering are computed as the code computes them.     *)
(***************************************************************************)
EXTENDS Integers, Sequences, FiniteSets, TLC

\* ------------------------------------------------------------------ bounds
MaxSessions == 2        \* care sessions tracked one by one
MaxPatients == 2        \* patient records created in a run
MaxDay == 1             \* last calendar day of a run (days are 0..MaxDay)
MaxTreatments == 2      \* treatments ever entered in the catalog
MaxRows == 2
MaxEmployees == 3            \* employee rows ever inserted

\* ------------------------------------------------------- program constants
QueueLimit == 999       \* generateQueueNumber: nextNumber > 999
QueuePad == 3           \* padStart(3, '0')
MrPad == 6              \* padStart(6, '0')
BAD_REQUEST == 400
NOT_FOUND == 404
INTERNAL_SERVER_ERROR == 500

Statuses == {"WAITING_CONSULTATION", "IN_CONSULTATION", "WAITING_MEDICATION",
             "WAITING_PAYMENT", "COMPLETED"}
NoStatus == "undefined"
Doctors == {"d1"}
AllDoctors == {"d1", "d2"}
Slots == {1, 2}
FirstMr == 1            \* let nextNumber = 1

\* ----------------------------------------------------------------- strings
Zero == 48
Dot == 46
LetterU == 85

RECURSIVE ToStr(_)
\* Number.prototype.toString / String(n) of a non-negative integer
ToStr(n) == IF n < 10 THEN <<Zero + n>> ELSE ToStr(n \div 10) \o <<Zero + (n % 10)>>

\* String.prototype.padStart(len, ch)
PadStart(s, len, ch) ==
  IF Len(s) >= len THEN s ELSE [i \in 1..(len - Len(s)) |-> ch] \o s

RECURSIVE RemoveDots(_)
\* s.replace(/\./g, '')
RemoveDots(s) ==
  IF s = <<>> THEN <<>>
  ELSE IF Head(s) = Dot THEN RemoveDots(Tail(s))
  ELSE <<Head(s)>> \o RemoveDots(Tail(s))

\* A number of the code: an integer, or NaN
NaN == [nan |-> TRUE, value |-> 0]
Number(n) == [nan |-> FALSE, value |-> n]

\* StrWhiteSpaceChar: tab, LF, VT, FF, CR, space, NBSP, the other space
\* separators (U+1680, U+2000..U+200A, U+202F, U+205F, U+3000), LS, PS, BOM
WhiteSpace ==
  {9, 10, 11, 12, 13, 32, 160, 5760} \cup (8192..8202)
    \cup {8232, 8233, 8239, 8287, 12288, 65279}
RECURSIVE TrimStart(_)
\* the string without its leading white space
TrimStart(s) ==
  IF s # <<>> /\ Head(s) \in WhiteSpace THEN TrimStart(Tail(s)) ELSE s

\* The value of a character as a digit: 0-9, a-z and A-Z as 10..35, else 36
DigitOf(c) ==
  IF c >= 48 /\ c <= 57 THEN c - 48
  ELSE IF c >= 97 /\ c <= 122 THEN c - 87
  ELSE IF c >= 65 /\ c <= 90 THEN c - 55
  ELSE 36

RECURSIVE DigitPrefix(_, _)
\* the longest prefix of s made of digits of radix R
DigitPrefix(s, R) ==
  IF s = <<>> \/ DigitOf(Head(s)) >= R THEN <<>>
  ELSE <<Head(s)>> \o DigitPrefix(Tail(s), R)

RECURSIVE DigitsValue(_, _)
DigitsValue(s, R) ==
  IF s = <<>> THEN 0
  ELSE R * DigitsValue(SubSeq(s, 1, Len(s) - 1), R) + DigitOf(s[Len(s)])

\* parseInt(string, radix), radix 0 when the call passes none: leading white
\* space is skipped, a sign is read, "0x" / "0X" selects radix 16 when the radix
\* is 0 or 16, and the value is that of the longest prefix of digits of the
\* radix; NaN when that prefix is empty or the radix is not 0 or in 2..36
ParseInt(string, radix) ==
  LET trimmed == TrimStart(string)
      signed == trimmed # <<>> /\ Head(trimmed) \in {43, 45}
      sign == IF trimmed # <<>> /\ Head(trimmed) = 45 THEN -1 ELSE 1
      unsigned == IF signed THEN Tail(trimmed) ELSE trimmed
      hex == /\ radix \in {0, 16} /\ Len(unsigned) >= 2
             /\ unsigned[1] = 48 /\ unsigned[2] \in {120, 88}
      R == IF hex THEN 16 ELSE IF radix = 0 THEN 10 ELSE radix
      digits == DigitPrefix(IF hex THEN SubSeq(unsigned, 3, Len(unsigned)) ELSE unsigned, R)
  IN IF R < 2 \/ R > 36 \/ digits = <<>> THEN NaN
     ELSE Number(sign * DigitsValue(digits, R))

RECURSIVE StrLess(_, _)
\* a < b in the code-unit order of the strings
StrLess(a, b) ==
  IF b = <<>> THEN FALSE
  ELSE IF a = <<>> THEN TRUE
  ELSE IF Head(a) # Head(b) THEN Head(a) < Head(b)
  ELSE StrLess(Tail(a), Tail(b))

\* ----------------------------------------------------- sequence allocator
\* `U${String(nextNumber).padStart(3, '0')}`
FormatQueueNumber(n) == <<LetterU>> \o PadStart(ToStr(n), QueuePad, Zero)

\* nextNumber.toString().padStart(6,'0').replace(/(\d{2})(\d{2})(\d{2})/, '$1.$2.$3'):
\* the padded string is all digits and at least 6 long, so the first match is its
\* first six characters; whatever follows them stays as it is
FormatMr(n) ==
  LET p == PadStart(ToStr(n), MrPad, Zero)
  IN SubSeq(p, 1, 2) \o <<Dot>> \o SubSeq(p, 3, 4) \o <<Dot>> \o SubSeq(p, 5, 6)
       \o SubSeq(p, 7, Len(p))

\* parseInt(medical_record_number.replace(/\./g, ''), 10): the numbers in the
\* store are digit strings, which never parse to NaN
ParseMr(s) == ParseInt(RemoveDots(s), 10).value

Null == <<>>

\* ------------------------------------------------------------------- state
VARIABLES
  sessions,   \* careSession table: sessions[id], ids assigned 1, 2, ... by the store
  patients,   \* patient table: patients[id]
  countBase,  \* sessions of day 0 that are not tracked one by one (all COMPLETED)
  today,      \* the calendar day of the clock (new Date(), the store's now())
  scope,      \* what a run draws from: call slots, request statuses, store failures
  calls,      \* calls[c]: the request running in slot c, its locals, its result
  channel,    \* what the gateway was last given to broadcast, when a run listens
  treatments, \* treatment table: treatments[id]; a deleted row leaves its id behind
  sessionTreatments, \* careSessionTreatment table, in the order of insertion
  tcalls,     \* tcalls[c]: the TreatmentService request running in slot c
  employees,  \* employee table, in the order of insertion; a deleted row is not live
  year,       \* the calendar year of the clock (new Date().getFullYear())
  ecalls      \* ecalls[c]: the EmployeeService request running in slot c

qvars == <<sessions, patients, countBase, today, scope, calls, channel>>
tvars == <<treatments, sessionTreatments, tcalls>>
evars == <<employees, year, ecalls>>
vars == <<sessions, patients, countBase, today, scope, calls, channel,
          treatments, sessionTreatments, tcalls, employees, year, ecalls>>

NoResult == [kind |-> "none", http |-> 0, msg |-> "none"]
Ok == [kind |-> "ok", http |-> 0, msg |-> "none"]
HttpException(msg, http) == [kind |-> "error", http |-> http, msg |-> msg]

\* The gateway before any publish: no waiting list and no called queue sent
NoCalled == [id |-> 0, queue_number |-> <<>>]
Silent == [last |-> "none", waiting |-> <<>>, called |-> NoCalled]

\* What a projection returns: current (0: undefined) and next_queues
NoView == [doctor |-> "none", current |-> 0, next |-> <<>>]

IdleCall ==
  [op |-> "none", pc |-> "idle",
   reqPatient |-> 0, reqDoctor |-> "none", reqId |-> Number(0), reqStatus |-> NoStatus,
   patientId |-> 0, queueNumber |-> Null, todayStart |-> 0, todayEnd |-> 0,
   res |-> 0, resStatus |-> NoStatus, resMr |-> Null, lastMr |-> Null,
   snap |-> <<>>, nWaiting |-> 0, nCalled |-> 0, emitFailed |-> FALSE,
   changed |-> FALSE, view |-> NoView, result |-> NoResult]

\* An EmployeeService call: its request, the nip it generated, its result
IdleECall == [op |-> "none", pc |-> "idle", role |-> "none", email |-> "none",
              nip |-> <<>>, result |-> NoResult]
\* The years a run may take place in
Years == <<2026, 2109>>
\* No employee yet, and no call of the employee service
NoEmployees ==
  employees = <<>> /\ year = Years[1] /\ ecalls = [c \in Slots |-> IdleECall]

\* A TreatmentService call: its request, the prices it read, the rows it made
IdleTCall ==
  [op |-> "none", pc |-> "idle", reqSession |-> 0, reqTreatments |-> <<>>,
   priceMap |-> <<>>, created |-> {}, result |-> NoResult]

\* The failures a store operation may end in (a lost connection, a constraint)
StoreErrors == {[code |-> "P1001", message |-> "db"]}
\* Prisma's error of an update whose where matches no row
RecordNotFound == [code |-> "P2025", message |-> "Record to update not found."]
\* throw new Error('Queue limit exceeded for today')
QueueLimitError == [code |-> "none", message |-> "Queue limit exceeded for today"]
\* what a throwing publish would raise
EmitError == [code |-> "none", message |-> "emit"]
NoError == [code |-> "none", message |-> "none"]

\* The stores a run may start from.  EmptyStore: nothing yet.  DayAt(n): n
\* sessions already created and completed today, for a patient numbered
\* 00.00.01.  OldStore: a long-lived store whose greatest medical record number
\* is 99.99.99 (of its patients only the holder of the greatest number is kept:
\* the lookup reads no other).
EmptyStore == [base |-> 0, patients |-> <<>>]
DayAt(n) == [base |-> n, patients |-> <<[mrn |-> FormatMr(FirstMr)]>>]
OldStore == [base |-> 0, patients |-> <<[mrn |-> <<57, 57, Dot, 57, 57, Dot, 57, 57>>]>>]
\* Stores whose greatest medical record number is that of n, for numbers of one
\* to six digits up to the last one of six digits
StoreAt(n) == [base |-> 0, patients |-> <<[mrn |-> FormatMr(n)]>>]
MrStores == {EmptyStore, StoreAt(1), StoreAt(9), StoreAt(99), StoreAt(123455),
             StoreAt(999998), OldStore}
\* Days that stand just below 10, 100 and the limit
DayStores == {EmptyStore, DayAt(8), DayAt(98), DayAt(QueueLimit - MaxSessions)}

InitStore(slots, statuses, errors, stores, doctors, listen, nights) ==
  /\ \E st \in stores :
       /\ countBase = st.base
       /\ patients = st.patients
       /\ scope = [slots |-> slots, statuses |-> statuses, errors |-> errors,
                   kept |-> Len(st.patients), doctors |-> doctors,
                   listen |-> listen, nights |-> nights]
  /\ sessions = <<>>
  /\ channel = Silent
  /\ NoEmployees
  /\ today = 0
  /\ calls = [c \in Slots |-> IdleCall]
  /\ treatments = <<>>
  /\ sessionTreatments = <<>>
  /\ tcalls = [c \in Slots |-> IdleTCall]

InitFrom(slots, statuses, errors, stores, doctors) ==
  InitStore(slots, statuses, errors, stores, doctors, FALSE, FALSE)

InitWith(slots, statuses, errors, stores) ==
  InitFrom(slots, statuses, errors, stores, Doctors)

\* Concurrent runs: two slots, whose calls interleave at their store operations
Init == InitWith(Slots, {"COMPLETED"}, {}, {EmptyStore})
\* Sequential runs: one slot, so every call ends before the next begins
InitSeq ==
  InitStore({1}, Statuses \cup {NoStatus}, StoreErrors, {EmptyStore}, Doctors, FALSE, TRUE)
\* Sequential runs on days that are part gone
InitDay == InitStore({1}, {"COMPLETED"}, StoreErrors, DayStores, Doctors, FALSE, TRUE)
\* Sequential runs on a long-lived store
InitOld == InitWith({1}, {"COMPLETED"}, StoreErrors, {OldStore})
\* Sequential runs on stores that hold medical record numbers
InitMr == InitWith({1}, {"COMPLETED"}, {}, MrStores)
\* Sequential runs of a clinic with two doctors, whose screens read the queues
InitRead == InitStore({1}, Statuses, {}, {EmptyStore}, AllDoctors, FALSE, TRUE)
\* Sequential runs whose publishes are listened to
InitPublish ==
  InitStore({1}, Statuses \cup {NoStatus}, {}, {EmptyStore}, Doctors, TRUE, FALSE)
\* Concurrent runs whose publishes are listened to
InitPublishRace ==
  InitStore(Slots, {"COMPLETED"}, {}, {EmptyStore}, Doctors, TRUE, FALSE)

Free(c) == c \in scope.slots /\ calls[c].pc \in {"idle", "done"}
At(c, pc) == c \in scope.slots /\ calls[c].pc = pc
InFlight(pcs) == {c \in Slots : calls[c].pc \in pcs}
\* How a store operation may end: without error, or in one of the failures
Outcomes == {NoError} \cup scope.errors

\* Midnight passes
NextDay == /\ today < MaxDay
           /\ today' = today + 1
           /\ UNCHANGED <<sessions, patients, countBase, scope, calls>>
           /\ UNCHANGED <<channel, tvars, evars>>

\* ----------------------------------------------------------- store queries
Ids == 1..Len(sessions)

\* a count that also sees the numbers held by creates that have not inserted yet
CountTodayReserved(todayStart, todayEnd) ==
  (IF todayStart = 0 THEN countBase ELSE 0)
    + Cardinality({i \in Ids : sessions[i].created_at.day \in todayStart..todayEnd})
    + Cardinality({c \in Slots : /\ calls[c].pc = "a_insert"
                                 /\ calls[c].todayStart = todayStart
                                 /\ calls[c].todayEnd = todayEnd})
\* careSession.count({ where: { created_at: { gte: todayStart, lte: todayEnd } } }):
\* the sessions created from the start of day todayStart to the end of day
\* todayEnd
CountToday(todayStart, todayEnd) ==
  (IF todayStart = 0 THEN countBase ELSE 0)
    + Cardinality({i \in Ids : sessions[i].created_at.day \in todayStart..todayEnd})

Earlier(a, b) == a.day < b.day \/ (a.day = b.day /\ a.at < b.at)
\* a is a later time than b
Later(a, b) == a.day > b.day \/ (a.day = b.day /\ a.at > b.at)

\* where: { status: 'WAITING_CONSULTATION' }
WaitingIds == {i \in Ids : sessions[i].status = "WAITING_CONSULTATION"}

\* The orders findMany({ where, orderBy: { created_at: 'asc' } }) may return the
\* rows of `ids` in: created_at ascending, rows of equal created_at in any order
OrderedByCreatedAt(ids) ==
  {q \in [1..Cardinality(ids) -> ids] :
     /\ \A i, j \in DOMAIN q : i # j => q[i] # q[j]
     /\ \A i, j \in DOMAIN q : i < j => ~Later(sessions[q[i]].created_at,
                                                  sessions[q[j]].created_at)}

\* waitingSessions.map(({ id, doctor, room, queue_number }) => ...)
\* (room is carried like doctor and is left out)
WaitingQueueDetail(q) ==
  [k \in DOMAIN q |-> [id |-> q[k], doctor |-> sessions[q[k]].doctor,
                       queue_number |-> sessions[q[k]].queue_number]]

\* The results getWaitingQueuesData() may return on the current store
GetWaitingQueuesData == {WaitingQueueDetail(q) : q \in OrderedByCreatedAt(WaitingIds)}

\* ------------------------------------------------------------- broadcaster
\* QueueGateway.emitWaitingQueueUpdate / emitCalledQueueUpdate: a publish is
\* delivered, or it fails; a failed publish is either lost inside the gateway
\* or thrown to the service that called it
EmitOutcomes == {"delivered", "lost", "thrown"}
GatewayThrows(outcome) == outcome = "thrown"

\* -------------------------------------------------------- QueueService.add
\* a catch block that reports an internal error without the cause
AddCatchInternal(error) == HttpException("Internal server error", INTERNAL_SERVER_ERROR)
\* catch (error) { throw new HttpException(error.message, HttpStatus.BAD_REQUEST) }
AddCatch(error) == HttpException(error.message, BAD_REQUEST)

\* The call returns or throws: its locals are gone, what it did is kept
Finish(call, result) ==
  [call EXCEPT !.pc = "done", !.result = result,
               !.reqPatient = 0, !.reqDoctor = "none", !.reqId = Number(0),
               !.reqStatus = NoStatus, !.patientId = 0,
               !.queueNumber = Null, !.todayStart = 0, !.todayEnd = 0, !.resMr = Null,
               !.lastMr = Null, !.snap = <<>>]
Done(c, result) == Finish(calls[c], result)

\* const todayStart = startOfDay(new Date()); const todayEnd = endOfDay(new Date()):
\* the clock is read twice, and midnight may pass between the two reads
ClockReads ==
  {[todayStart |-> today, todayEnd |-> today]}
    \cup (IF scope.nights /\ today < MaxDay
          THEN {[todayStart |-> today, todayEnd |-> today + 1]} ELSE {})
\* generateQueueNumber() up to its await: the window of the count is fixed
ReadToday(call, clock) ==
  [call EXCEPT !.todayStart = clock.todayStart, !.todayEnd = clock.todayEnd,
               !.pc = "a_count"]

\* A create request arrives: patient_id of an existing patient, or (0) inline
\* patient_data.  A run holds at most MaxSessions tracked sessions: a request
\* is taken while there is room for its session, or the day is full.
BeginAdd(c) ==
  /\ Free(c)
  /\ \/ Len(sessions) + Cardinality(InFlight({"a_patient", "a_count", "a_insert"}))
          < MaxSessions
     \/ CountToday(today, today) >= QueueLimit
  /\ \E p \in 0..Len(patients), d \in scope.doctors :
       LET call == [IdleCall EXCEPT !.op = "add", !.reqPatient = p, !.reqDoctor = d,
                                    !.patientId = p]
       IN /\ p = 0 => Len(patients) - scope.kept + Cardinality(InFlight({"a_patient"}))
                         < MaxPatients
          /\ IF p = 0
             THEN /\ calls' = [calls EXCEPT ![c] = [call EXCEPT !.pc = "a_patient"]]
                  /\ UNCHANGED today
             ELSE \E clock \in ClockReads :
                    /\ calls' = [calls EXCEPT ![c] = ReadToday(call, clock)]
                    /\ today' = clock.todayEnd
  /\ UNCHANGED <<sessions, patients, countBase, scope>>
  /\ UNCHANGED <<channel, tvars, evars>>

\* patient.create({ data: request.patient_data })
AddCreatePatient(c) ==
  /\ At(c, "a_patient")
  /\ \E e \in Outcomes :
       IF e = NoError
       THEN /\ patients' = Append(patients, [mrn |-> Null])
            /\ \E clock \in ClockReads :
                 /\ calls' = [calls EXCEPT ![c] =
                      ReadToday([calls[c] EXCEPT !.patientId = Len(patients) + 1], clock)]
                 /\ today' = clock.todayEnd
       ELSE /\ calls' = [calls EXCEPT ![c] = Done(c, AddCatch(e))]
            /\ UNCHANGED <<patients, today>>
  /\ UNCHANGED <<sessions, countBase, scope>>
  /\ UNCHANGED <<channel, tvars, evars>>

NextQueueNumberNoIncrement(countToday) == countToday
\* const nextNumber = countToday + 1
NextQueueNumber(countToday) == countToday + 1

QueueFullOffByOne(nextNumber) == nextNumber >= QueueLimit
\* if (nextNumber > 999)
QueueFull(nextNumber) == nextNumber > QueueLimit

\* generateQueueNumber() from its await: the store counts the sessions of the
\* window read before, the call adds 1 and refuses above 999
AddGenerateQueueNumber(c) ==
  /\ At(c, "a_count")
  /\ \E e \in Outcomes :
       LET nextNumber ==
             NextQueueNumber(CountToday(calls[c].todayStart, calls[c].todayEnd)) IN
       IF e # NoError THEN calls' = [calls EXCEPT ![c] = Done(c, AddCatch(e))]
       ELSE IF QueueFull(nextNumber)
       THEN calls' = [calls EXCEPT ![c] = Done(c, AddCatch(QueueLimitError))]
       ELSE /\ Len(sessions) + Cardinality(InFlight({"a_insert"})) < MaxSessions
            /\ calls' = [calls EXCEPT ![c].queueNumber = FormatQueueNumber(nextNumber),
                                      ![c].pc = "a_insert"]
  /\ UNCHANGED <<sessions, patients, countBase, today, scope>>
  /\ UNCHANGED <<channel, tvars, evars>>

\* a row that enters as already called, under the rank of the day at insert
NewCareSessionRenumbered(call, created_at) ==
  [status |-> "IN_CONSULTATION", patient |-> call.patientId,
   doctor |-> call.reqDoctor,
   queue_number |-> FormatQueueNumber(CountToday(created_at.day, created_at.day) + 1),
   created_at |-> created_at]
\* data: { complaints, doctor_id, room_id, patient_id: patientId,
\*         status: 'WAITING_CONSULTATION', queue_number: queueNumber }
NewCareSession(call, created_at) ==
  [status |-> "WAITING_CONSULTATION", patient |-> call.patientId,
   doctor |-> call.reqDoctor, queue_number |-> call.queueNumber,
   created_at |-> created_at]

\* careSession.create({ data: { ..., status: 'WAITING_CONSULTATION', queue_number } })
AddCreateSession(c) ==
  /\ At(c, "a_insert")
  /\ \E e \in Outcomes :
       IF e = NoError
       THEN /\ sessions' = Append(sessions,
                 NewCareSession(calls[c], [day |-> today, at |-> Len(sessions) + 1]))
            /\ calls' = [calls EXCEPT ![c].res = Len(sessions) + 1,
                                      ![c].resStatus = "WAITING_CONSULTATION",
                                      ![c].pc = "a_query"]
       ELSE /\ calls' = [calls EXCEPT ![c] = Done(c, AddCatch(e))]
            /\ UNCHANGED sessions
  /\ UNCHANGED <<patients, countBase, today, scope>>
  /\ UNCHANGED <<channel, tvars, evars>>

\* const waitingQueues = await this.getWaitingQueuesData()
AddQueryWaiting(c) ==
  /\ At(c, "a_query")
  /\ \E e \in Outcomes :
       IF e = NoError
       THEN \E w \in GetWaitingQueuesData :
              calls' = [calls EXCEPT ![c].snap = w, ![c].pc = "a_emit"]
       ELSE calls' = [calls EXCEPT ![c] = Done(c, AddCatch(e))]
  /\ UNCHANGED <<sessions, patients, countBase, today, scope>>
  /\ UNCHANGED <<channel, tvars, evars>>

\* server.emit('waitingQueueUpdated', data): the gateway is handed the list
EmitWaitingQueueUpdate(ch, data) ==
  IF scope.listen THEN [ch EXCEPT !.last = "waiting", !.waiting = data] ELSE ch
\* server.emit('calledQueueUpdated', data): the gateway is handed the payload
EmitCalledQueueUpdate(ch, data) ==
  IF scope.listen THEN [ch EXCEPT !.last = "called", !.called = data] ELSE ch

\* this.queueGateway.emitWaitingQueueUpdate(waitingQueues); return res
AddEmit(c) ==
  /\ At(c, "a_emit")
  /\ \E o \in EmitOutcomes :
       calls' = [calls EXCEPT ![c] =
         [Done(c, IF GatewayThrows(o) THEN AddCatch(EmitError) ELSE Ok)
            EXCEPT !.nWaiting = @ + 1, !.emitFailed = (o # "delivered")]]
  /\ channel' = EmitWaitingQueueUpdate(channel, calls[c].snap)
  /\ UNCHANGED <<sessions, patients, countBase, today, scope>>
  /\ UNCHANGED <<tvars, evars>>

\* ----------------------------------------------------- QueueService.update
\* The id strings a request may carry: decimal ids, "a", "1x", "-1", "0x1", " 1"
\* and "1" after an ideographic space (U+3000)
IdInputs ==
  {ToStr(i) : i \in 1..MaxSessions}
    \cup {<<97>>, <<49, 120>>, <<45, 49>>, <<48, 120, 49>>, <<32, 49>>, <<12288, 49>>}

\* a catch block that rethrows every error
UpdateCatchRethrowsAll(error) == HttpException(error.message, INTERNAL_SERVER_ERROR)
\* catch (error) { if (error.code === 'P2025') throw new HttpException(..., NOT_FOUND);
\*                 throw error }
\* An error rethrown as it is reaches the framework, which answers 500.
UpdateCatch(error) ==
  IF error.code = "P2025"
  THEN HttpException("Data pelayanan tidak ditemukan!", NOT_FOUND)
  ELSE HttpException(error.message, INTERNAL_SERVER_ERROR)

\* a test that lets every id through
IsNaNNever(n) == FALSE
\* isNaN(numericId)
IsNaN(n) == n.nan

\* const numericId = parseInt(id); if (isNaN(numericId)) throw ...
BeginUpdate(c) ==
  /\ Free(c)
  /\ \E id \in IdInputs, st \in scope.statuses :
       LET numericId == ParseInt(id, 0)
           call == [IdleCall EXCEPT !.op = "update", !.reqId = numericId, !.reqStatus = st]
       IN calls' = [calls EXCEPT ![c] =
            IF IsNaN(numericId)
            THEN Finish(call, HttpException("Invalid ID type", BAD_REQUEST))
            ELSE [call EXCEPT !.pc = "u_update"]]
  /\ UNCHANGED <<sessions, patients, countBase, today, scope>>
  /\ UNCHANGED <<channel, tvars, evars>>

\* The condition under which update allocates a medical record number
NeedsMr(reqStatus, resMr) == reqStatus = "COMPLETED" /\ resMr = Null

\* a transition that refuses to move a session backwards in the lifecycle
NewStatusForwardOnly(current, requested) ==
  LET rank == [s \in Statuses |->
                 CASE s = "WAITING_CONSULTATION" -> 1 [] s = "IN_CONSULTATION" -> 2
                   [] s = "WAITING_MEDICATION" -> 3 [] s = "WAITING_PAYMENT" -> 4
                   [] OTHER -> 5]
  IN IF requested = NoStatus \/ rank[requested] < rank[current]
     THEN current ELSE requested
\* data: request: the status of the request is written as it is, whatever the
\* current status; a request without status leaves the status alone
NewStatus(current, requested) == IF requested = NoStatus THEN current ELSE requested

\* careSession.update({ where: { id }, data: request, include: { patient: true } })
UpdateSession(c) ==
  /\ At(c, "u_update")
  /\ \E e \in Outcomes :
       LET id == calls[c].reqId.value IN
       IF e # NoError
       THEN /\ calls' = [calls EXCEPT ![c] = Done(c, UpdateCatch(e))]
            /\ UNCHANGED sessions
       ELSE IF id \notin Ids
       THEN /\ calls' = [calls EXCEPT ![c] = Done(c, UpdateCatch(RecordNotFound))]
            /\ UNCHANGED sessions
       ELSE LET st == NewStatus(sessions[id].status, calls[c].reqStatus)
                mr == patients[sessions[id].patient].mrn
            IN /\ sessions' = [sessions EXCEPT ![id].status = st]
               /\ calls' = [calls EXCEPT ![c].res = id, ![c].resStatus = st,
                              ![c].changed = st # sessions[id].status,
                              ![c].resMr = mr, ![c].patientId = sessions[id].patient,
                              ![c].pc = IF NeedsMr(calls[c].reqStatus, mr)
                                        THEN "u_find" ELSE "u_query"]
  /\ UNCHANGED <<patients, countBase, today, scope>>
  /\ UNCHANGED <<channel, tvars, evars>>

\* patient.findFirst({ where: { medical_record_number: { not: null } },
\*                     orderBy: { medical_record_number: 'desc' } })
LastPatientWithMr ==
  LET numbered == {patients[i].mrn : i \in DOMAIN patients} \ {Null}
  IN IF numbered = {} THEN Null
     ELSE CHOOSE m \in numbered : \A o \in numbered : o = m \/ StrLess(o, m)

UpdateFindLastMr(c) ==
  /\ At(c, "u_find")
  /\ \E e \in Outcomes :
       IF e = NoError
       THEN calls' = [calls EXCEPT ![c].lastMr = LastPatientWithMr, ![c].pc = "u_pupdate"]
       ELSE calls' = [calls EXCEPT ![c] = Done(c, UpdateCatch(e))]
  /\ UNCHANGED <<sessions, patients, countBase, today, scope>>
  /\ UNCHANGED <<channel, tvars, evars>>

\* let nextNumber = 1; if (last) nextNumber = parseInt(last.replace(/\./g, ''), 10) + 1
NextMrNumber(lastMr) == IF lastMr # Null THEN ParseMr(lastMr) + 1 ELSE FirstMr

\* What patient.update may answer: it resolves, the store fails, or, where
\* store operations may fail, the row of the patient is gone (patients are
\* deleted outside QueueService) and the update rejects with P2025
PatientUpdateOutcomes ==
  Outcomes \cup (IF scope.errors = {} THEN {} ELSE {RecordNotFound})

\* patient.update({ where: { id: res.patient_id }, data: { medical_record_number } })
UpdatePatientMr(c) ==
  /\ At(c, "u_pupdate")
  /\ \E e \in PatientUpdateOutcomes :
       IF e = NoError
       THEN /\ patients' = [patients EXCEPT ![calls[c].patientId].mrn =
                              FormatMr(NextMrNumber(calls[c].lastMr))]
            /\ calls' = [calls EXCEPT
                 ![c].pc = "u_query",
                 ![c].changed = @ \/ FormatMr(NextMrNumber(calls[c].lastMr))
                                       # patients[calls[c].patientId].mrn]
       ELSE /\ calls' = [calls EXCEPT ![c] = Done(c, UpdateCatch(e))]
            /\ UNCHANGED patients
  /\ UNCHANGED <<sessions, countBase, today, scope>>
  /\ UNCHANGED <<channel, tvars, evars>>

\* const waitingQueues = await this.getWaitingQueuesData()
UpdateQueryWaiting(c) ==
  /\ At(c, "u_query")
  /\ \E e \in Outcomes :
       IF e = NoError
       THEN \E w \in GetWaitingQueuesData :
              calls' = [calls EXCEPT ![c].snap = w, ![c].pc = "u_emit"]
       ELSE calls' = [calls EXCEPT ![c] = Done(c, UpdateCatch(e))]
  /\ UNCHANGED <<sessions, patients, countBase, today, scope>>
  /\ UNCHANGED <<channel, tvars, evars>>

CallsOutWhenWaiting(resStatus) == resStatus = "WAITING_CONSULTATION"
\* if (res.status === 'IN_CONSULTATION') emitCalledQueueUpdate(...)
CallsOut(resStatus) == resStatus = "IN_CONSULTATION"

\* a payload that names the patient of the session
CalledPayloadOfPatient(id) ==
  [id |-> sessions[id].patient, queue_number |-> sessions[id].queue_number]
\* { id: res.id, queue_number: res.queue_number }
CalledPayload(id) == [id |-> id, queue_number |-> sessions[id].queue_number]

\* emitWaitingQueueUpdate(waitingQueues); the called publish when due; return res
UpdateEmit(c) ==
  /\ At(c, "u_emit")
  /\ \E o1, o2 \in EmitOutcomes :
       LET called == ~GatewayThrows(o1) /\ CallsOut(calls[c].resStatus)
           thrown == GatewayThrows(o1) \/ (called /\ GatewayThrows(o2))
       IN /\ called \/ o2 = "delivered"
          /\ calls' = [calls EXCEPT ![c] =
               [Done(c, IF thrown THEN UpdateCatch(EmitError) ELSE Ok)
                  EXCEPT !.nWaiting = @ + 1,
                         !.nCalled = IF called THEN @ + 1 ELSE @,
                         !.emitFailed = (o1 # "delivered" \/ (called /\ o2 # "delivered"))]]
          /\ channel' =
               LET sent == EmitWaitingQueueUpdate(channel, calls[c].snap)
               IN IF called
                  THEN EmitCalledQueueUpdate(sent, CalledPayload(calls[c].res))
                  ELSE sent
  /\ UNCHANGED <<sessions, patients, countBase, today, scope>>
  /\ UNCHANGED <<tvars, evars>>

\* -------------------------------------------------------------- projections
\* An error no catch block handles leaves the service as it is: the framework
\* answers 500
Unhandled(error) == HttpException(error.message, INTERNAL_SERVER_ERROR)

\* The orders a findMany without orderBy may return the rows of `ids` in: the
\* store promises none
AnyOrder(ids) ==
  {q \in [1..Cardinality(ids) -> ids] : \A i, j \in DOMAIN q : i # j => q[i] # q[j]}

\* .map(({ id, queue_number }) => ({ id, queue_number }))
QueueRefs(q) == [k \in DOMAIN q |-> [id |-> q[k], queue_number |-> sessions[q[k]].queue_number]]

\* list_waiting: the waiting queue is read on its own
BeginList(c) ==
  /\ Free(c)
  /\ calls' = [calls EXCEPT ![c] = [IdleCall EXCEPT !.op = "list", !.pc = "l_query"]]
  /\ UNCHANGED <<sessions, patients, countBase, today, scope>>
  /\ UNCHANGED <<channel, tvars, evars>>

ListWaiting(c) ==
  /\ At(c, "l_query")
  /\ \E e \in Outcomes :
       IF e = NoError
       THEN \E w \in GetWaitingQueuesData :
              calls' = [calls EXCEPT ![c] = [Done(c, Ok) EXCEPT !.view.next = w]]
       ELSE calls' = [calls EXCEPT ![c] = Done(c, Unhandled(e))]
  /\ UNCHANGED <<sessions, patients, countBase, today, scope>>
  /\ UNCHANGED <<channel, tvars, evars>>

\* a filter that also looks at the clock
MedicationIdsToday ==
  {i \in Ids : sessions[i].status = "WAITING_MEDICATION"
                 /\ sessions[i].created_at.day = today}
\* where: { status: { in: ['WAITING_MEDICATION'] } }
MedicationIds == {i \in Ids : sessions[i].status = "WAITING_MEDICATION"}

\* a projection that lists every row, the current one included, as next
ActivePharmacyQueuesAll(q) ==
  [doctor |-> "none",
   current |-> IF Len(q) # 0 THEN q[1] ELSE 0,
   next |-> QueueRefs(q)]
\* current: careSessions.map(...)[0] when there is a row;
\* next_queues: careSessions.slice(1).map(...)
ActivePharmacyQueues(q) ==
  [doctor |-> "none",
   current |-> IF Len(q) # 0 THEN q[1] ELSE 0,
   next |-> QueueRefs([k \in 1..(Len(q) - 1) |-> q[k + 1]])]

BeginPharmacy(c) ==
  /\ Free(c)
  /\ calls' = [calls EXCEPT ![c] = [IdleCall EXCEPT !.op = "pharmacy", !.pc = "p_query"]]
  /\ UNCHANGED <<sessions, patients, countBase, today, scope>>
  /\ UNCHANGED <<channel, tvars, evars>>

\* getActivePharmacyQueues(): findMany({ orderBy: { created_at: 'asc' }, where })
GetActivePharmacyQueues(c) ==
  /\ At(c, "p_query")
  /\ \E e \in Outcomes :
       IF e = NoError
       THEN \E q \in OrderedByCreatedAt(MedicationIds) :
              calls' = [calls EXCEPT ![c] =
                          [Done(c, Ok) EXCEPT !.view = ActivePharmacyQueues(q)]]
       ELSE calls' = [calls EXCEPT ![c] = Done(c, Unhandled(e))]
  /\ UNCHANGED <<sessions, patients, countBase, today, scope>>
  /\ UNCHANGED <<channel, tvars, evars>>

\* where: { status: { in: ['IN_CONSULTATION'] }, doctor_id: id }
ConsultingIds(d) ==
  {i \in Ids : sessions[i].status = "IN_CONSULTATION" /\ sessions[i].doctor = d}
\* where: { status: { in: ['WAITING_CONSULTATION'] }, doctor_id: id }
WaitingIdsOf(d) ==
  {i \in Ids : sessions[i].status = "WAITING_CONSULTATION" /\ sessions[i].doctor = d}

\* getActiveDoctorQueue(id): Promise.all of a findFirst and a findMany, which
\* the store serves one after the other in either order
BeginDoctor(c) ==
  /\ Free(c)
  /\ \E d \in scope.doctors :
       calls' = [calls EXCEPT ![c] =
                   [IdleCall EXCEPT !.op = "doctor", !.pc = "d_wait", !.view.doctor = d]]
  /\ UNCHANGED <<sessions, patients, countBase, today, scope>>
  /\ UNCHANGED <<channel, tvars, evars>>

\* findFirst({ where }): one of the rows that match, null when there is none
DoctorFindFirst(c) ==
  /\ At(c, "d_wait") \/ At(c, "d_many")
  /\ \E e \in Outcomes :
       LET found == ConsultingIds(calls[c].view.doctor) IN
       IF e = NoError
       THEN \E cur \in (IF found = {} THEN {0} ELSE found) :
              calls' = [calls EXCEPT ![c] =
                IF calls[c].pc = "d_wait"
                THEN [calls[c] EXCEPT !.pc = "d_first", !.view.current = cur]
                ELSE [Finish(calls[c], Ok) EXCEPT !.view.current = cur]]
       ELSE calls' = [calls EXCEPT ![c] = [Done(c, Unhandled(e)) EXCEPT !.view = NoView]]
  /\ UNCHANGED <<sessions, patients, countBase, today, scope>>
  /\ UNCHANGED <<channel, tvars, evars>>

\* findMany({ where }), without orderBy
DoctorFindMany(c) ==
  /\ At(c, "d_wait") \/ At(c, "d_first")
  /\ \E e \in Outcomes :
       IF e = NoError
       THEN \E q \in AnyOrder(WaitingIdsOf(calls[c].view.doctor)) :
              calls' = [calls EXCEPT ![c] =
                IF calls[c].pc = "d_wait"
                THEN [calls[c] EXCEPT !.pc = "d_many", !.view.next = QueueRefs(q)]
                ELSE [Finish(calls[c], Ok) EXCEPT !.view.next = QueueRefs(q)]]
       ELSE calls' = [calls EXCEPT ![c] = [Done(c, Unhandled(e)) EXCEPT !.view = NoView]]
  /\ UNCHANGED <<sessions, patients, countBase, today, scope>>
  /\ UNCHANGED <<channel, tvars, evars>>

\* -------------------------------------------------------- TreatmentService
\* (src/src/auth/auth.service.ts)
Prices == {100, 250}
\* Prisma's error of a write that breaks a foreign key
ForeignKeyError == [code |-> "P2003", message |-> "Foreign key constraint failed"]
\* The id strings a request may carry: decimal ids, "a", "-1" and "0x1"
TreatmentIdInputs ==
  {ToStr(i) : i \in 1..MaxTreatments} \cup {<<97>>, <<45, 49>>, <<48, 120, 49>>}
\* request.treatments: one or two items (quantity is carried along and left out)
TreatmentLists ==
  {<<i>> : i \in 1..MaxTreatments} \cup {<<i, j>> : i, j \in 1..MaxTreatments}

TFree(c) == c \in scope.slots /\ tcalls[c].pc \in {"idle", "done"}
TDone(call, result) ==
  [call EXCEPT !.pc = "done", !.result = result, !.reqSession = 0,
               !.reqTreatments = <<>>, !.priceMap = <<>>]
LiveTreatments == {i \in DOMAIN treatments : treatments[i].live}
LiveRows == {r \in DOMAIN sessionTreatments : sessionTreatments[r].live}

\* catch (error) { if (error.code === 'P2025') throw new HttpException(..., NOT_FOUND);
\*                 throw error }
TreatmentCatch(error) ==
  IF error.code = "P2025"
  THEN HttpException("Data penanganan tidak ditemukan!", NOT_FOUND)
  ELSE Unhandled(error)

\* add(dto): treatment.create({ data: request })
TreatmentAdd(c) ==
  /\ TFree(c)
  /\ Len(treatments) < MaxTreatments
  /\ \E price \in Prices, e \in Outcomes :
       IF e = NoError
       THEN /\ treatments' = Append(treatments, [price |-> price, live |-> TRUE])
            /\ tcalls' = [tcalls EXCEPT ![c] = TDone([IdleTCall EXCEPT !.op = "add"], Ok)]
       ELSE /\ tcalls' = [tcalls EXCEPT ![c] =
                            TDone([IdleTCall EXCEPT !.op = "add"], Unhandled(e))]
            /\ UNCHANGED treatments
  /\ UNCHANGED sessionTreatments
  /\ UNCHANGED <<qvars, evars>>

\* update(id, dto): parseInt, then treatment.update({ where: { id }, data: request })
\* where request may or may not carry a price
TreatmentUpdate(c) ==
  /\ TFree(c)
  /\ \E id \in TreatmentIdInputs :
       LET parsed == ParseInt(id, 0)
           numericId == parsed.value
           call == [IdleTCall EXCEPT !.op = "update"]
           fail(result) == /\ tcalls' = [tcalls EXCEPT ![c] = TDone(call, result)]
                           /\ UNCHANGED treatments
       IN IF IsNaN(parsed) THEN fail(HttpException("Invalid ID format", BAD_REQUEST))
          ELSE \E e \in Outcomes :
                 IF e # NoError THEN fail(TreatmentCatch(e))
                 ELSE IF numericId \notin LiveTreatments
                 THEN fail(TreatmentCatch(RecordNotFound))
                 ELSE \E hasPrice \in BOOLEAN :
                        \E price \in (IF hasPrice THEN Prices
                                      ELSE {treatments[numericId].price}) :
                          /\ treatments' = [treatments EXCEPT ![numericId].price = price]
                          /\ tcalls' = [tcalls EXCEPT ![c] = TDone(call, Ok)]
  /\ UNCHANGED sessionTreatments
  /\ UNCHANGED <<qvars, evars>>

\* What the store does with the rows that refer to a deleted treatment: the
\* schema decides (no action, refusal or cascade) and is not part of the service
DeleteEffects(id) ==
  IF \E r \in LiveRows : sessionTreatments[r].treatment_id = id
  THEN {"keep", "restrict", "cascade"} ELSE {"keep"}

\* delete(id): parseInt, then treatment.delete({ where: { id } })
TreatmentDelete(c) ==
  /\ TFree(c)
  /\ \E id \in TreatmentIdInputs :
       LET parsed == ParseInt(id, 0)
           numericId == parsed.value
           call == [IdleTCall EXCEPT !.op = "delete"]
           fail(result) == /\ tcalls' = [tcalls EXCEPT ![c] = TDone(call, result)]
                           /\ UNCHANGED <<treatments, sessionTreatments>>
       IN IF IsNaN(parsed) THEN fail(HttpException("Invalid ID format", BAD_REQUEST))
          ELSE \E e \in Outcomes :
          IF e # NoError THEN fail(TreatmentCatch(e))
          ELSE IF numericId \notin LiveTreatments THEN fail(TreatmentCatch(RecordNotFound))
          ELSE \E effect \in DeleteEffects(numericId) :
                 IF effect = "restrict" THEN fail(TreatmentCatch(ForeignKeyError))
                 ELSE /\ treatments' = [treatments EXCEPT ![numericId].live = FALSE]
                      /\ sessionTreatments' =
                           [r \in DOMAIN sessionTreatments |->
                              IF effect = "cascade"
                                 /\ sessionTreatments[r].treatment_id = numericId
                              THEN [sessionTreatments[r] EXCEPT !.live = FALSE]
                              ELSE sessionTreatments[r]]
                      /\ tcalls' = [tcalls EXCEPT ![c] = TDone(call, Ok)]
  /\ UNCHANGED <<qvars, evars>>

\* addSessionTreatments(dto): a request for a care session and its treatments
BeginAddSessionTreatments(c) ==
  /\ TFree(c)
  /\ \E cs \in Ids, ts \in TreatmentLists :
       /\ Len(sessionTreatments) + Len(ts)
            + Cardinality({d \in Slots : tcalls[d].pc \in {"t_find", "t_insert"}}) * 2
            <= MaxRows
       /\ tcalls' = [tcalls EXCEPT ![c] =
            [IdleTCall EXCEPT !.op = "addSessionTreatments", !.pc = "t_find",
                              !.reqSession = cs, !.reqTreatments = ts]]
  /\ UNCHANGED <<treatments, sessionTreatments>>
  /\ UNCHANGED <<qvars, evars>>

\* treatment.findMany({ where: { id: { in: treatmentIds } }, select: { id, price } })
\* and priceMap.set(t.id, t.price) for each row found
FindTreatmentPrices(c) ==
  /\ c \in scope.slots /\ tcalls[c].pc = "t_find"
  /\ \E e \in Outcomes :
       LET ids == {tcalls[c].reqTreatments[k] : k \in DOMAIN tcalls[c].reqTreatments}
       IN IF e = NoError
          THEN tcalls' = [tcalls EXCEPT
                 ![c].priceMap = [i \in ids \cap LiveTreatments |-> treatments[i].price],
                 ![c].pc = "t_insert"]
          ELSE tcalls' = [tcalls EXCEPT ![c] = TDone(tcalls[c], Unhandled(e))]
  /\ UNCHANGED <<treatments, sessionTreatments>>
  /\ UNCHANGED <<qvars, evars>>

\* a price looked up in the catalog at the time of the insert
AppliedPriceAtInsert(priceMap, treatment_id) ==
  IF treatment_id \in LiveTreatments THEN treatments[treatment_id].price ELSE 0
\* applied_price: priceMap.get(treatment_id) ?? 0
AppliedPrice(priceMap, treatment_id) ==
  IF treatment_id \in DOMAIN priceMap THEN priceMap[treatment_id] ELSE 0

\* a transaction that keeps the rows created before the operation that failed
TransactionPartial(operations, failed) ==
  IF failed = 0 THEN operations ELSE SubSeq(operations, 1, failed - 1)
\* $transaction(operations): the rows of every operation, or of none when the
\* operation at position failed (0: none) rejects
Transaction(operations, failed) == IF failed = 0 THEN operations ELSE <<>>

\* const created = await this.prismaService.$transaction(operations)
CreateSessionTreatments(c) ==
  /\ c \in scope.slots /\ tcalls[c].pc = "t_insert"
  /\ \E e \in Outcomes :
       LET ts == tcalls[c].reqTreatments
           n == Len(sessionTreatments)
           operations ==
             [k \in DOMAIN ts |->
                [care_session_id |-> tcalls[c].reqSession, treatment_id |-> ts[k],
                 applied_price |-> AppliedPrice(tcalls[c].priceMap, ts[k]),
                 live |-> TRUE]]
       IN \E failed \in 0..Len(ts) :
            /\ (failed = 0) <=> (e = NoError)
            /\ sessionTreatments' = sessionTreatments \o Transaction(operations, failed)
            /\ tcalls' = [tcalls EXCEPT ![c] =
                 IF failed = 0
                 THEN [TDone(tcalls[c], Ok) EXCEPT !.created = (n + 1)..(n + Len(ts))]
                 ELSE TDone(tcalls[c], Unhandled(e))]
  /\ UNCHANGED treatments
  /\ UNCHANGED <<qvars, evars>>

TreatmentStep(c) ==
  \/ TreatmentAdd(c)
  \/ TreatmentUpdate(c)
  \/ TreatmentDelete(c)
  \/ BeginAddSessionTreatments(c)
  \/ FindTreatmentPrices(c)
  \/ CreateSessionTreatments(c)

\* A clinic with one care session waiting, and no treatment in the catalog yet
InitTreatment ==
  /\ sessions = <<NewCareSession([patientId |-> 1, reqDoctor |-> "d1",
                                   queueNumber |-> FormatQueueNumber(1)],
                                  [day |-> 0, at |-> 1])>>
  /\ patients = <<[mrn |-> Null]>>
  /\ countBase = 0
  /\ today = 0
  /\ scope = [slots |-> Slots, statuses |-> {}, errors |-> {},
              kept |-> 1, doctors |-> Doctors, listen |-> FALSE, nights |-> FALSE]
  /\ calls = [c \in Slots |-> IdleCall]
  /\ channel = Silent
  /\ NoEmployees
  /\ treatments = <<>>
  /\ sessionTreatments = <<>>
  /\ tcalls = [c \in Slots |-> IdleTCall]

\* --------------------------------------------------------- EmployeeService
\* enum EmployeeRole, in the order of Object.values(EmployeeRole)
RoleValues == <<"ADMIN", "DOKTER", "PERAWAT", "BIDAN", "FARMASI", "APOTEKER", "STAFF">>
\* The roles and e-mail addresses a request may carry; "TAMU" is no role
RequestRoles == {"ADMIN", "STAFF", "TAMU"}
Emails == {"a@klinik", "b@klinik"}
UniqueError == [code |-> "P2002", message |-> "Unique constraint failed"]
\* A field an update request leaves out
Undefined == "undefined"
\* UpdateEmployeeDto: e-mail and role, each present or not (name and phone are
\* carried along and left out)
UpdateDtos ==
  [email : Emails \cup {Undefined}, role : {"STAFF", Undefined}]

\* roleValues.indexOf(role): the position from 0, -1 when there is none
IndexOf(values, v) ==
  IF \E i \in DOMAIN values : values[i] = v
  THEN (CHOOSE i \in DOMAIN values : values[i] = v) - 1
  ELSE -1
\* String.prototype.slice(-n): the last n characters
SliceLast(str, n) == IF Len(str) <= n THEN str ELSE SubSeq(str, Len(str) - n + 1, Len(str))

LiveEmployees == {i \in DOMAIN employees : employees[i].live}
\* employee.count()
CountEmployees == Cardinality(LiveEmployees)

\* `${year}${roleCode}${paddedSequence}`
Nip(fullYear, roleIndex, count) ==
  LET roleCode == PadStart(ToStr(roleIndex + 1), 2, Zero)
      yy == SliceLast(ToStr(fullYear), 2)
      sequence == count + 1
      paddedSequence == PadStart(ToStr(sequence), 4, Zero)
  IN yy \o roleCode \o paddedSequence

EFree(c) == c \in scope.slots /\ ecalls[c].pc \in {"idle", "done"}
\* add returns or throws: its locals are gone, its result is what the caller sees
EDone(c, result) ==
  [IdleECall EXCEPT !.op = ecalls[c].op, !.pc = "done", !.result = result]

\* add(dto) is called
BeginEmployeeAdd(c) ==
  /\ EFree(c)
  /\ Len(employees) + Cardinality({d \in Slots : ecalls[d].pc \in {"e_count", "e_email", "e_create"}})
       < MaxEmployees
  /\ \E role \in RequestRoles, email \in Emails :
       ecalls' = [ecalls EXCEPT ![c] =
         [IdleECall EXCEPT !.op = "add", !.pc = "e_count",
                           !.role = role, !.email = email]]
  /\ UNCHANGED <<employees, year>>
  /\ UNCHANGED <<qvars, tvars>>

\* const generatedNip = await this.generateNip(dto.role)
GenerateNip(c) ==
  /\ c \in scope.slots /\ ecalls[c].pc = "e_count"
  /\ LET roleIndex == IndexOf(RoleValues, ecalls[c].role)
     IN IF roleIndex = -1
        THEN ecalls' = [ecalls EXCEPT ![c] =
               EDone(c, Unhandled([code |-> "Error",
                                   message |-> "Invalid role: " \o ecalls[c].role]))]
        ELSE \E e \in Outcomes :
               IF e = NoError
               THEN ecalls' = [ecalls EXCEPT
                      ![c].nip = Nip(year, roleIndex, CountEmployees),
                      ![c].pc = "e_email"]
               ELSE ecalls' = [ecalls EXCEPT ![c] = EDone(c, Unhandled(e))]
  /\ UNCHANGED <<employees, year>>
  /\ UNCHANGED <<qvars, tvars>>

\* employee.count({ where: { email } }); if (totalWithSameEmail != 0) throw 400
CountSameEmail(c) ==
  /\ c \in scope.slots /\ ecalls[c].pc = "e_email"
  /\ \E e \in Outcomes :
       LET totalWithSameEmail ==
             Cardinality({i \in LiveEmployees : employees[i].email = ecalls[c].email})
       IN IF e # NoError THEN ecalls' = [ecalls EXCEPT ![c] = EDone(c, Unhandled(e))]
          ELSE IF totalWithSameEmail # 0
          THEN ecalls' = [ecalls EXCEPT ![c] =
                 EDone(c, HttpException("Email " \o ecalls[c].email \o " sudah terdaftar!",
                                        BAD_REQUEST))]
          ELSE ecalls' = [ecalls EXCEPT ![c].pc = "e_create"]
  /\ UNCHANGED <<employees, year>>
  /\ UNCHANGED <<qvars, tvars>>

\* employee.create({ data }): nip and email are @unique
CreateEmployee(c) ==
  /\ c \in scope.slots /\ ecalls[c].pc = "e_create"
  /\ \E e \in Outcomes :
       LET taken == \E i \in LiveEmployees :
                      \/ employees[i].nip = ecalls[c].nip
                      \/ employees[i].email = ecalls[c].email
       IN IF e # NoError
          THEN /\ ecalls' = [ecalls EXCEPT ![c] = EDone(c, Unhandled(e))]
               /\ UNCHANGED employees
          ELSE IF taken
          THEN /\ ecalls' = [ecalls EXCEPT ![c] = EDone(c, Unhandled(UniqueError))]
               /\ UNCHANGED employees
          ELSE /\ employees' = Append(employees,
                      [nip |-> ecalls[c].nip, role |-> ecalls[c].role,
                       email |-> ecalls[c].email, live |-> TRUE])
               /\ ecalls' = [ecalls EXCEPT ![c].pc = "e_mail"]
  /\ UNCHANGED year
  /\ UNCHANGED <<qvars, tvars>>

\* How the mail server answers
MailOutcomes == {"sent", "failed"}
\* try { await this.mailerService.sendMail(...) } catch (error) { logger.error };
\* return { user: employee, token }: the employee as it was created
SendMail(c) ==
  /\ c \in scope.slots /\ ecalls[c].pc = "e_mail"
  /\ \E o \in MailOutcomes : ecalls' = [ecalls EXCEPT ![c] = EDone(c, Ok)]
  /\ UNCHANGED <<employees, year>>
  /\ UNCHANGED <<qvars, tvars>>

\* catch (error) { if (error.code === 'P2025') throw 404; throw error }
EmployeeCatch(error) ==
  IF error.code = "P2025"
  THEN HttpException("Data karyawan tidak ditemukan!", NOT_FOUND)
  ELSE Unhandled(error)

\* update(id, dto): employee.update({ where: { id }, data: request })
EmployeeUpdate(c) ==
  /\ EFree(c)
  /\ \E id \in 1..MaxEmployees, request \in UpdateDtos, e \in Outcomes :
       LET call == [IdleECall EXCEPT !.op = "update", !.pc = "done"]
           taken == /\ request.email # Undefined
                    /\ \E i \in LiveEmployees \ {id} : employees[i].email = request.email
           fail(error) == /\ ecalls' = [ecalls EXCEPT ![c] =
                                          [call EXCEPT !.result = EmployeeCatch(error)]]
                          /\ UNCHANGED employees
       IN IF e # NoError THEN fail(e)
          ELSE IF id \notin LiveEmployees THEN fail(RecordNotFound)
          ELSE IF taken THEN fail(UniqueError)
          ELSE /\ employees' = [employees EXCEPT
                     ![id].email = IF request.email = Undefined THEN @ ELSE request.email,
                     ![id].role = IF request.role = Undefined THEN @ ELSE request.role]
               /\ ecalls' = [ecalls EXCEPT ![c] = [call EXCEPT !.result = Ok]]
  /\ UNCHANGED year
  /\ UNCHANGED <<qvars, tvars>>

\* delete(id): employee.delete({ where: { id } })
EmployeeDelete(c) ==
  /\ EFree(c)
  /\ \E id \in 1..MaxEmployees, e \in Outcomes :
       LET call == [IdleECall EXCEPT !.op = "delete", !.pc = "done"]
       IN IF e # NoError
          THEN /\ ecalls' = [ecalls EXCEPT ![c] = [call EXCEPT !.result = EmployeeCatch(e)]]
               /\ UNCHANGED employees
          ELSE IF id \notin LiveEmployees
          THEN /\ ecalls' = [ecalls EXCEPT ![c] =
                      [call EXCEPT !.result = EmployeeCatch(RecordNotFound)]]
               /\ UNCHANGED employees
          ELSE /\ employees' = [employees EXCEPT ![id].live = FALSE]
               /\ ecalls' = [ecalls EXCEPT ![c] = [call EXCEPT !.result = Ok]]
  /\ UNCHANGED year
  /\ UNCHANGED <<qvars, tvars>>

EmployeeStep(c) ==
  \/ BeginEmployeeAdd(c)
  \/ GenerateNip(c)
  \/ CountSameEmail(c)
  \/ CreateEmployee(c)
  \/ SendMail(c)
  \/ EmployeeUpdate(c)
  \/ EmployeeDelete(c)

\* An empty employee table, in one of the years; the calls that may run
InitEmployeeFrom(slots, years) ==
  /\ sessions = <<>>
  /\ patients = <<>>
  /\ countBase = 0
  /\ today = 0
  /\ scope = [slots |-> slots, statuses |-> {}, errors |-> {},
              kept |-> 0, doctors |-> Doctors, listen |-> FALSE, nights |-> FALSE]
  /\ calls = [c \in Slots |-> IdleCall]
  /\ channel = Silent
  /\ treatments = <<>>
  /\ sessionTreatments = <<>>
  /\ tcalls = [c \in Slots |-> IdleTCall]
  /\ employees = <<>>
  /\ year \in years
  /\ ecalls = [c \in Slots |-> IdleECall]

InitEmployee == InitEmployeeFrom({1}, {Years[k] : k \in DOMAIN Years})

\* An empty employee table in the first of the years; calls may overlap
InitEmployeeRace == InitEmployeeFrom(Slots, {Years[1]})

\* ------------------------------------------------------------ specification
Step(c) ==
  \/ BeginAdd(c)
  \/ AddCreatePatient(c)
  \/ AddGenerateQueueNumber(c)
  \/ AddCreateSession(c)
  \/ AddQueryWaiting(c)
  \/ AddEmit(c)
  \/ BeginUpdate(c)
  \/ UpdateSession(c)
  \/ UpdateFindLastMr(c)
  \/ UpdatePatientMr(c)
  \/ UpdateQueryWaiting(c)
  \/ UpdateEmit(c)

\* The reads of the screens
ReadStep(c) ==
  \/ BeginList(c)
  \/ ListWaiting(c)
  \/ BeginPharmacy(c)
  \/ GetActivePharmacyQueues(c)
  \/ BeginDoctor(c)
  \/ DoctorFindFirst(c)
  \/ DoctorFindMany(c)

\* The calls of one day
NextInDay == \E c \in Slots : Step(c)
NextRead == \E c \in Slots : ReadStep(c)
\* The calls, and midnight passing between any two of their steps
Next == NextDay \/ NextInDay

\* Concurrent calls within one day
Spec == Init /\ [][NextInDay]_vars
\* Sequential calls within one day, with a listener on the gateway
SpecPublish == InitPublish /\ [][NextInDay]_vars
\* Concurrent calls within one day, with a listener on the gateway
SpecPublishRace == InitPublishRace /\ [][NextInDay]_vars
\* Sequential calls over the days
SpecSeq == InitSeq /\ [][Next]_vars
\* Sequential calls on days that are part gone
SpecDay == InitDay /\ [][Next]_vars
\* Sequential calls on a long-lived store
SpecOld == InitOld /\ [][NextInDay]_vars
\* Sequential calls on stores that hold medical record numbers
SpecMr == InitMr /\ [][NextInDay]_vars
\* Concurrent calls of the treatment service
NextTreatment == \E c \in Slots : TreatmentStep(c)
SpecTreatment == InitTreatment /\ [][NextTreatment]_vars
\* One call of the treatment service at a time, over a store that may fail
InitTreatmentSeq ==
  /\ sessions = <<NewCareSession([patientId |-> 1, reqDoctor |-> "d1",
                                   queueNumber |-> FormatQueueNumber(1)],
                                  [day |-> 0, at |-> 1])>>
  /\ patients = <<[mrn |-> Null]>>
  /\ countBase = 0
  /\ today = 0
  /\ scope = [slots |-> {1}, statuses |-> {}, errors |-> StoreErrors,
              kept |-> 1, doctors |-> Doctors, listen |-> FALSE, nights |-> FALSE]
  /\ calls = [c \in Slots |-> IdleCall]
  /\ channel = Silent
  /\ NoEmployees
  /\ treatments = <<>>
  /\ sessionTreatments = <<>>
  /\ tcalls = [c \in Slots |-> IdleTCall]
SpecTreatmentSeq == InitTreatmentSeq /\ [][NextTreatment]_vars
\* Steps of calls of the employee service, within one year
NextEmployee == \E c \in Slots : EmployeeStep(c)
\* Calls one at a time
SpecEmployee == InitEmployee /\ [][NextEmployee]_vars

\* Calls whose steps interleave: a row created by add is in the table while the
\* call still waits for the mail server
SpecEmployeeRace == InitEmployeeRace /\ [][NextEmployee]_vars
\* Sequential calls and reads in a clinic with two doctors
SpecRead == InitRead /\ [][Next \/ NextRead]_vars

\* =================================================================== claims
\* 'U' followed by i written with three digits (i in 1..999)
PaddedU(i) == <<LetterU, Zero + (i \div 100), Zero + ((i \div 10) % 10), Zero + (i % 10)>>

\* The sessions of table ss created on day d, the untracked ones of day 0 included
CreatedOn(ss, d) ==
  (IF d = 0 THEN countBase ELSE 0)
    + Cardinality({i \in DOMAIN ss : ss[i].created_at.day = d})

\* The sessions of table ss created on the days from..to
CreatedIn(ss, from, to) ==
  (IF from = 0 THEN countBase ELSE 0)
    + Cardinality({i \in DOMAIN ss : ss[i].created_at.day \in from..to})
\* Call c read the clock, both times, on the day that is today
SameDay(c) == calls[c].todayStart = today /\ calls[c].todayEnd = today
\* Call c inserts a session in this step
Inserts(c) ==
  /\ calls[c].pc = "a_insert" /\ calls'[c].pc = "a_query"
  /\ Len(sessions') = Len(sessions) + 1
\* The result is the failure of a store operation, whatever status it is given
StoreFailure(result) ==
  result.kind = "error" /\ \E e \in StoreErrors : result.msg = e.message

\* C1: in sequential runs, a create call that runs within one calendar day gives
\* its session 'U' and the three-digit rank of that session among the sessions
\* created that day: the i-th session of a day is numbered U00i, without gap or
\* repeat.
C1_SequentialQueueNumbers ==
  [][\A c \in Slots :
       (Inserts(c) /\ SameDay(c))
         => sessions'[Len(sessions')].queue_number = PaddedU(CreatedOn(sessions', today))]_vars

C1_Witness ==
  /\ Len(sessions) = 2
  /\ sessions[1].queue_number = PaddedU(99)
  /\ sessions[2].queue_number = PaddedU(100)
  /\ sessions[1].created_at.day = sessions[2].created_at.day

\* C2: in sequential runs, a create that counts 998 sessions today is assigned
\* U999 and inserts its session under that number; a create that counts 999
\* sessions today ends in the capacity error (or in the failure of the count
\* itself) and inserts nothing.
C2_CapacityCeiling ==
  [][\A c \in Slots :
       /\ (calls[c].pc = "a_count" /\ calls'[c].pc # "a_count" /\ SameDay(c)
             /\ CreatedOn(sessions, today) = QueueLimit - 1
             /\ ~StoreFailure(calls'[c].result))
            => /\ calls'[c].pc = "a_insert"
               /\ calls'[c].queueNumber = PaddedU(QueueLimit)
       /\ (Inserts(c) /\ SameDay(c)
             /\ CreatedOn(sessions, today) = QueueLimit - 1)
            => sessions'[Len(sessions')].queue_number = PaddedU(QueueLimit)
       /\ (calls[c].pc = "a_count" /\ calls'[c].pc # "a_count" /\ SameDay(c)
             /\ CreatedOn(sessions, today) = QueueLimit)
            => /\ calls'[c].pc = "done"
               /\ \/ calls'[c].result = HttpException("Queue limit exceeded for today",
                                                      BAD_REQUEST)
                  \/ StoreFailure(calls'[c].result)
               /\ calls'[c].res = 0
               /\ sessions' = sessions]_vars

C2_Witness ==
  /\ \E i \in Ids : sessions[i].queue_number = PaddedU(QueueLimit)
  /\ \E c \in Slots :
       /\ calls[c].op = "add" /\ calls[c].pc = "done"
       /\ calls[c].result.msg = "Queue limit exceeded for today"
       /\ calls[c].res = 0

\* The values of the medical record numbers the patients of table ps hold
MrValues(ps) == {ParseMr(ps[q].mrn) : q \in {r \in DOMAIN ps : ps[r].mrn # Null}}
\* Patient p gets its number in this step
Numbered(p) == patients[p].mrn = Null /\ patients'[p].mrn # Null

\* C3: in sequential runs, a patient without number gets a number strictly
\* greater than every number assigned before (1 when there is none), and a
\* patient that holds a number keeps it.
C3_MrOnceAndIncreasing ==
  [][\A p \in DOMAIN patients :
       /\ Numbered(p) =>
            /\ \A v \in MrValues(patients) : ParseMr(patients'[p].mrn) > v
            /\ MrValues(patients) = {} => ParseMr(patients'[p].mrn) = 1
       /\ patients[p].mrn # Null => patients'[p].mrn = patients[p].mrn]_vars

\* C4: under any interleaving, a number once set is never replaced by another,
\* every new number is strictly greater than every number set before, and no
\* two patients hold the same number.
C4_MrImmutableUnique ==
  [][/\ \A p \in DOMAIN patients :
          /\ patients[p].mrn # Null => patients'[p].mrn = patients[p].mrn
          /\ Numbered(p) => \A v \in MrValues(patients) : ParseMr(patients'[p].mrn) > v
     /\ \A p, q \in DOMAIN patients' :
          (p # q /\ patients'[p].mrn # Null) => patients'[p].mrn # patients'[q].mrn]_vars

Returned(c, op) == calls[c].op = op /\ calls[c].pc = "done"

\* C5: a transition call that returns its session has published the waiting
\* queue exactly once, and the called notification once when the status of the
\* session it returns is IN_CONSULTATION and not at all otherwise.
C5_PublishCounts ==
  \A c \in Slots :
    (Returned(c, "update") /\ calls[c].result = Ok)
      => /\ calls[c].nWaiting = 1
         /\ calls[c].resStatus = sessions[calls[c].res].status
         /\ calls[c].nCalled = IF sessions[calls[c].res].status = "IN_CONSULTATION"
                               THEN 1 ELSE 0

C5_Witness ==
  \E c \in Slots :
    /\ Returned(c, "update") /\ calls[c].result = Ok
    /\ calls[c].resStatus = "IN_CONSULTATION" /\ calls[c].nCalled = 1

\* C6: the update of a session id that is not in the store ends the call with
\* NotFound (or with the failure of the store operation itself), without any
\* publish, and leaves every session and patient as it was.
C6_UnknownIdNotFound ==
  [][\A c \in Slots :
       (calls[c].pc = "u_update" /\ calls[c].reqId.value \notin Ids /\ calls'[c].pc # "u_update")
         => /\ calls'[c].pc = "done"
            /\ \/ calls'[c].result = HttpException("Data pelayanan tidak ditemukan!", NOT_FOUND)
               \/ StoreFailure(calls'[c].result)
            /\ calls'[c].nWaiting = 0 /\ calls'[c].nCalled = 0
            /\ sessions' = sessions /\ patients' = patients]_vars

C6_Witness ==
  \E c \in Slots :
    /\ Returned(c, "update") /\ calls[c].result.http = NOT_FOUND
    /\ calls[c].res = 0 /\ calls[c].nWaiting = 0

\* C7: a create or transition call one of whose publishes failed still returns
\* its session, and the session it created or updated is in the store as the
\* call left it.
C7_PublishFailureSwallowed ==
  \A c \in Slots :
    (calls[c].pc = "done" /\ calls[c].emitFailed)
      => /\ calls[c].result = Ok
         /\ calls[c].res \in Ids
         /\ sessions[calls[c].res].status = calls[c].resStatus

\* C8: a create call that returned an error has left no session of its own in
\* the store.
C8_CreateAtomic ==
  \A c \in Slots :
    (Returned(c, "add") /\ calls[c].result.kind = "error") => calls[c].res \notin Ids

\* C9: a transition call that returned an error has changed neither the status
\* of its session nor the medical record number of its patient.
C9_TransitionAtomic ==
  \A c \in Slots :
    (Returned(c, "update") /\ calls[c].result.kind = "error") => ~calls[c].changed

\* w lists exactly the sessions waiting for consultation, each once with its own
\* queue number, oldest first
IsWaitingList(w) ==
  /\ {w[k].id : k \in DOMAIN w} = {i \in Ids : sessions[i].status = "WAITING_CONSULTATION"}
  /\ \A k, l \in DOMAIN w : k < l =>
       /\ w[k].id # w[l].id
       /\ LET a == sessions[w[k].id].created_at
              b == sessions[w[l].id].created_at
          IN a.day < b.day \/ (a.day = b.day /\ a.at <= b.at)
  /\ \A k \in DOMAIN w : w[k].queue_number = sessions[w[k].id].queue_number

\* C10: in sequential runs, whatever the waiting-queue query returns, and the
\* snapshot a call has read for its publish, is the list of exactly the sessions
\* in WAITING_CONSULTATION in ascending order of created_at.
C10_WaitingListSorted ==
  /\ \A w \in GetWaitingQueuesData : IsWaitingList(w)
  /\ \A c \in Slots : calls[c].pc \in {"a_emit", "u_emit"} => IsWaitingList(calls[c].snap)

C10_Witness ==
  /\ \E c \in Slots : calls[c].pc = "u_emit" /\ Len(calls[c].snap) = 1
  /\ Len(sessions) = 2 /\ sessions[1].status = "WAITING_PAYMENT"

\* C11: queue numbers are allocated by count-then-insert without a lock: a
\* create that counts while another create of the same day holds a number it has
\* not inserted yet is given that same number, and each inserts its session
\* under the number it holds, whatever numbers the day's sessions carry.
C11_CreateRace ==
  [][\A c \in Slots :
       /\ \A d \in Slots \ {c} :
            (/\ calls[c].pc = "a_count" /\ calls'[c].pc = "a_insert"
             /\ SameDay(c) /\ calls[d].pc = "a_insert" /\ SameDay(d)
             /\ calls[d].queueNumber = PaddedU(CreatedOn(sessions, today) + 1))
              => calls'[c].queueNumber = calls[d].queueNumber
       /\ Inserts(c) => sessions'[Len(sessions')].queue_number = calls[c].queueNumber]_vars

\* two sessions created the same day carry the same queue number
C11_Witness ==
  \E i, j \in Ids :
    /\ i # j
    /\ sessions[i].created_at.day = sessions[j].created_at.day
    /\ sessions[i].queue_number = sessions[j].queue_number

\* C12: the number a create is assigned is 'U' and one plus the count of the
\* sessions created on the current calendar day (the day the call has reached
\* when it issues the count), the sessions of other days left out: on a day
\* without session yet it is U001, however many sessions the earlier days hold.
C12_DailyReset ==
  [][\A c \in Slots :
       (calls[c].pc = "a_count" /\ calls'[c].pc = "a_insert")
         => LET day == calls[c].todayEnd
            IN /\ calls'[c].queueNumber = PaddedU(CreatedOn(sessions, day) + 1)
               /\ CreatedOn(sessions, day) = 0 => calls'[c].queueNumber = PaddedU(1)]_vars

C14_SessionsOnlyGrow ==
  [][/\ Len(sessions') >= Len(sessions)
     /\ \A i \in Ids :
          /\ sessions'[i].queue_number = sessions[i].queue_number
          /\ sessions'[i].created_at = sessions[i].created_at
          /\ sessions'[i].patient = sessions[i].patient
          /\ sessions'[i].doctor = sessions[i].doctor
     /\ \A c \in Slots :
          (calls[c].pc = "a_insert" /\ sessions' # sessions)
            => /\ Len(sessions') = Len(sessions) + 1
               /\ sessions'[Len(sessions')].status = "WAITING_CONSULTATION"
               /\ sessions'[Len(sessions')].queue_number = calls[c].queueNumber
     /\ (\A c \in Slots : calls[c].pc # "a_insert") => Len(sessions') = Len(sessions)]_vars

\* a create has returned its session after an earlier session moved on and a
\* screen read the queue
C14_Witness ==
  /\ Len(sessions) = 2
  /\ sessions[1].status = "COMPLETED"
  /\ sessions[2].status = "WAITING_CONSULTATION"
  /\ \E c \in Slots : Returned(c, "doctor") /\ Len(calls[c].view.next) = 1

\* refs lists exactly the sessions of ids, each once with its own queue number,
\* in ascending order of created_at
ListsInOrder(refs, ids) ==
  /\ {refs[k].id : k \in DOMAIN refs} = ids
  /\ \A k \in DOMAIN refs : refs[k].queue_number = sessions[refs[k].id].queue_number
  /\ \A k, l \in DOMAIN refs : k < l =>
       /\ refs[k].id # refs[l].id
       /\ LET a == sessions[refs[k].id].created_at
              b == sessions[refs[l].id].created_at
          IN a.day < b.day \/ (a.day = b.day /\ a.at <= b.at)

\* C16: what getActiveDoctorQueue(d) returns has as current a session of doctor
\* d in IN_CONSULTATION (none when d has none) and as next_queues exactly the
\* sessions of d in WAITING_CONSULTATION in ascending order of created_at.
C16_DoctorProjection ==
  \A c \in Slots :
    (Returned(c, "doctor") /\ calls[c].result = Ok)
      => LET v == calls[c].view
             called == {i \in Ids : sessions[i].doctor = v.doctor
                                     /\ sessions[i].status = "IN_CONSULTATION"}
             waiting == {i \in Ids : sessions[i].doctor = v.doctor
                                      /\ sessions[i].status = "WAITING_CONSULTATION"}
         IN /\ IF called = {} THEN v.current = 0 ELSE v.current \in called
            /\ ListsInOrder(v.next, waiting)

\* C17: what getActivePharmacyQueues returns has as current the session in
\* WAITING_MEDICATION of the smallest created_at (none when there is none) and as
\* next_queues all the other sessions in WAITING_MEDICATION in ascending order
\* of created_at; current is not among them, and no session of another status
\* is in either.
C17_PharmacyProjection ==
  \A c \in Slots :
    (Returned(c, "pharmacy") /\ calls[c].result = Ok)
      => LET v == calls[c].view
             med == {i \in Ids : sessions[i].status = "WAITING_MEDICATION"}
         IN /\ IF med = {} THEN v.current = 0
               ELSE /\ v.current \in med
                    /\ \A m \in med \ {v.current} :
                         LET a == sessions[v.current].created_at
                             b == sessions[m].created_at
                         IN a.day < b.day \/ (a.day = b.day /\ a.at < b.at)
            /\ ListsInOrder(v.next, med \ {v.current})
            /\ \A k \in DOMAIN v.next : v.next[k].id # v.current

\* two sessions wait for medication, the older is current, the other is next
C17_Witness ==
  \E c \in Slots :
    /\ Returned(c, "pharmacy") /\ calls[c].result = Ok
    /\ calls[c].view.current = 1
    /\ Len(calls[c].view.next) = 1 /\ calls[c].view.next[1].id = 2
    /\ sessions[1].status = "WAITING_MEDICATION"

\* C19: a create refused because the day is full ends in an internal or
\* conflict error (HTTP 5xx or 409).
C19_CapacityErrorClass ==
  \A c \in Slots :
    (Returned(c, "add") /\ calls[c].result.msg = "Queue limit exceeded for today")
      => \/ calls[c].result.http >= INTERNAL_SERVER_ERROR
         \/ calls[c].result.http = 409

\* C20: a create that ends at its patient insert, its count, its session insert
\* or its waiting-queue query through the failure of that store operation ends
\* in a 4xx error that carries the message of the failure.
C20_CreateStoreFailure ==
  [][\A c \in Slots :
       (/\ calls[c].pc \in {"a_patient", "a_count", "a_insert", "a_query"}
        /\ calls'[c].pc = "done"
        /\ ~(/\ calls[c].pc = "a_count"
             /\ CreatedIn(sessions, calls[c].todayStart, calls[c].todayEnd) >= QueueLimit))
         => /\ calls'[c].result.kind = "error"
            /\ calls'[c].result.http >= 400 /\ calls'[c].result.http <= 499
            /\ \E e \in StoreErrors : calls'[c].result.msg = e.message]_vars

\* a create failed at its waiting-queue query, after its insert
C20_Witness ==
  \E c \in Slots :
    /\ Returned(c, "add") /\ calls[c].res \in Ids
    /\ calls[c].result = HttpException("db", BAD_REQUEST)

\* n written with six digits, zero-padded, in pairs separated by dots
SixDigitPairs(n) ==
  LET d(k) == Zero + ((n \div (10 ^ (6 - k))) % 10)
  IN <<d(1), d(2), Dot, d(3), d(4), Dot, d(5), d(6)>>
\* The greatest element of a non-empty set of numbers
Greatest(S) == CHOOSE m \in S : \A o \in S : o <= m

\* C18: the number a patient is given is the value of the greatest number
\* assigned so far plus 1, or 1 when no patient has a number, and it is written
\* as six zero-padded digits in pairs separated by dots: 1 is 00.00.01 and
\* 123456 is 12.34.56.
C18_NextMrNumber ==
  [][/\ FormatMr(1) = <<48, 48, 46, 48, 48, 46, 48, 49>>
     /\ FormatMr(123456) = <<49, 50, 46, 51, 52, 46, 53, 54>>
     /\ \A p \in DOMAIN patients :
          Numbered(p) =>
            LET nextNumber == IF MrValues(patients) = {} THEN 1
                              ELSE Greatest(MrValues(patients)) + 1
            IN /\ ParseMr(patients'[p].mrn) = nextNumber
               /\ patients'[p].mrn = SixDigitPairs(nextNumber)]_vars

\* C15: a care-session treatment row gets its applied_price when it is inserted:
\* the price its addSessionTreatments call read from the catalog for that
\* treatment (0 when the call found no such treatment), which is the catalog
\* price at the time of that read; and no later step, a change of the catalog
\* price or a delete and a new entry included, changes the applied_price of a
\* row that exists.
C15_AppliedPriceFrozen ==
  [][/\ \A r \in DOMAIN sessionTreatments :
          /\ r \in DOMAIN sessionTreatments'
          /\ sessionTreatments'[r].live => sessionTreatments[r].live
          /\ sessionTreatments'[r].live =>
               /\ sessionTreatments'[r].applied_price = sessionTreatments[r].applied_price
               /\ sessionTreatments'[r].treatment_id = sessionTreatments[r].treatment_id
     /\ \A c \in Slots :
          /\ (tcalls[c].pc = "t_find" /\ tcalls'[c].pc = "t_insert")
               => \A k \in DOMAIN tcalls[c].reqTreatments :
                    LET t == tcalls[c].reqTreatments[k]
                    IN (t \in DOMAIN treatments /\ treatments[t].live)
                         => /\ t \in DOMAIN tcalls'[c].priceMap
                            /\ tcalls'[c].priceMap[t] = treatments[t].price
          /\ (tcalls[c].pc = "t_insert" /\ tcalls'[c].result = Ok)
               => /\ Len(sessionTreatments')
                       = Len(sessionTreatments) + Len(tcalls[c].reqTreatments)
                  /\ \A k \in DOMAIN tcalls[c].reqTreatments :
                       LET t == tcalls[c].reqTreatments[k]
                           row == sessionTreatments'[Len(sessionTreatments) + k]
                       IN /\ row.treatment_id = t
                          /\ row.applied_price =
                               IF t \in DOMAIN tcalls[c].priceMap
                               THEN tcalls[c].priceMap[t] ELSE 0]_vars

\* a row keeps the price it was applied at after the catalog price has changed
C15_Witness ==
  \E r \in DOMAIN sessionTreatments :
    LET row == sessionTreatments[r]
    IN /\ row.live /\ row.applied_price \in Prices
       /\ treatments[row.treatment_id].live
       /\ treatments[row.treatment_id].price # row.applied_price
       /\ \E c \in Slots : tcalls[c].op = "update" /\ tcalls[c].result = Ok

\* The place of a step in its call: each store operation and the publish have
\* one place, in the order of the code
PcRank(pc) ==
  CASE pc = "idle" -> 0
    [] pc \in {"a_patient", "u_update"} -> 1
    [] pc \in {"a_count", "u_find"} -> 2
    [] pc \in {"a_insert", "u_pupdate"} -> 3
    [] pc \in {"a_query", "u_query"} -> 4
    [] pc \in {"a_emit", "u_emit"} -> 5
    [] OTHER -> 6

\* C21: a transition that ends at one of its store operations ends in the
\* failure of that operation as it is (its message, answered as an internal
\* error), and in NotFound only at the session update of an id that is not in
\* the store; and a create or transition call only moves forward through its
\* store operations, so that none is attempted twice.
C21_UpdatePropagatesUnchanged ==
  [][\A c \in Slots :
       /\ (/\ calls[c].pc \in {"u_update", "u_find", "u_pupdate", "u_query"}
            /\ calls'[c].pc = "done")
             => IF calls[c].pc = "u_update" /\ calls[c].reqId.value \notin Ids
                THEN \/ calls'[c].result.http = NOT_FOUND
                     \/ \E e \in StoreErrors :
                          calls'[c].result = HttpException(e.message, INTERNAL_SERVER_ERROR)
                ELSE \E e \in StoreErrors :
                       calls'[c].result = HttpException(e.message, INTERNAL_SERVER_ERROR)
       /\ (calls[c].pc \notin {"idle", "done"} /\ calls'[c].pc # calls[c].pc)
             => PcRank(calls'[c].pc) > PcRank(calls[c].pc)]_vars

\* C24: after a transition call has returned its session, if the status of that
\* session is COMPLETED then its patient holds a medical record number; also
\* when the request carried no status.
C24_CompletedHasMr ==
  \A c \in Slots :
    (/\ Returned(c, "update") /\ calls[c].result = Ok
     /\ sessions[calls[c].res].status = "COMPLETED")
      => patients[sessions[calls[c].res].patient].mrn # Null

\* C25: a transition call whose id does not parse to a number never reaches a
\* store operation; the call that ends in the invalid-id error (400) ends at
\* once, having read and written no session and no patient and published
\* nothing.
C25_InvalidIdFirst ==
  [][\A c \in Slots :
       /\ calls'[c].pc \in {"u_update", "u_find", "u_pupdate", "u_query", "u_emit"}
            => calls'[c].reqId # NaN
       /\ (calls'[c] # calls[c] /\ calls'[c].result.msg = "Invalid ID type")
            => /\ calls[c].pc \in {"idle", "done"}
               /\ calls'[c].pc = "done"
               /\ calls'[c].result = HttpException("Invalid ID type", BAD_REQUEST)
               /\ calls'[c].res = 0 /\ calls'[c].nWaiting = 0 /\ calls'[c].nCalled = 0
               /\ sessions' = sessions /\ patients' = patients]_vars

\* a transition with an id without digits was refused while a session was there
C25_Witness ==
  \E c \in Slots :
    /\ Returned(c, "update")
    /\ calls[c].result = HttpException("Invalid ID type", BAD_REQUEST)
    /\ calls[c].res = 0 /\ Len(sessions) >= 1

\* C26: a create call with inline patient data that ends in an error at its
\* queue-number allocation or its session insert leaves no patient
\* record of its own in the store.
C26_FailedCreateNoPatient ==
  [][\A c \in Slots :
       (/\ calls[c].op = "add" /\ calls[c].reqPatient = 0
        /\ calls[c].pc \in {"a_count", "a_insert"}
        /\ calls'[c].pc = "done" /\ calls'[c].result.kind = "error")
         => calls[c].patientId \notin DOMAIN patients']_vars

\* C29: the lookup by descending string order returns the numerically greatest
\* assigned number; the number then written parses back to that value plus 1
\* and sorts, as a string, above every number assigned before, also when the
\* greatest assigned number is 99.99.99.
C29_LookupAndNextSortAbove ==
  [][\A c \in Slots :
       /\ (/\ calls[c].pc = "u_find" /\ calls'[c].pc = "u_pupdate"
           /\ MrValues(patients) # {})
            => /\ calls'[c].lastMr # Null
               /\ ParseMr(calls'[c].lastMr) = Greatest(MrValues(patients))
       /\ (/\ calls[c].pc = "u_pupdate" /\ calls'[c].pc = "u_query"
           /\ calls[c].lastMr # Null)
            => LET written == patients'[calls[c].patientId].mrn
               IN /\ ParseMr(written) = ParseMr(calls[c].lastMr) + 1
                  /\ \A q \in DOMAIN patients :
                       patients[q].mrn # Null => StrLess(patients[q].mrn, written)]_vars

\* C27: addSessionTreatments is all-or-nothing: a call that returns has added
\* one row for each item of its request, in order, for its care session, and a
\* call that fails, at its price lookup or at any operation of its
\* transaction, has added no row.
C27_AllOrNothing ==
  [][\A c \in Slots :
       (/\ tcalls[c].pc \in {"t_find", "t_insert"} /\ tcalls'[c].pc = "done")
         => LET ts == tcalls[c].reqTreatments
                n == Len(sessionTreatments)
            IN IF tcalls'[c].result = Ok
               THEN /\ Len(sessionTreatments') = n + Len(ts)
                    /\ SubSeq(sessionTreatments', 1, n) = sessionTreatments
                    /\ \A k \in DOMAIN ts :
                         /\ sessionTreatments'[n + k].treatment_id = ts[k]
                         /\ sessionTreatments'[n + k].care_session_id = tcalls[c].reqSession
                         /\ sessionTreatments'[n + k].live
               ELSE sessionTreatments' = sessionTreatments]_vars

\* a call failed after an earlier call had added a row
C27_Witness ==
  \E c \in Slots :
    /\ tcalls[c].op = "addSessionTreatments" /\ tcalls[c].pc = "done"
    /\ tcalls[c].result.kind = "error"
    /\ Len(sessionTreatments) = 1

\* C23: when no call is running, the waiting list the gateway was given last is
\* a result of list_waiting() on the store as it is.
C23_LastPublishIsCurrent ==
  ((\A c \in Slots : calls[c].pc \in {"idle", "done"}) /\ channel.last # "none")
    => channel.waiting \in GetWaitingQueuesData

C28_ReadsArePure ==
  [][\A c \in Slots :
       (/\ calls[c].pc \in {"l_query", "p_query", "d_wait", "d_first", "d_many"}
        /\ calls'[c] # calls[c])
         => /\ sessions' = sessions /\ patients' = patients /\ countBase' = countBase
            /\ channel' = channel
            /\ treatments' = treatments /\ sessionTreatments' = sessionTreatments
            /\ calls'[c].nWaiting = 0 /\ calls'[c].nCalled = 0
            /\ (calls'[c].pc = "done" /\ calls'[c].result = Ok)
                 => LET v == calls'[c].view
                        with(st) == {i \in Ids : sessions[i].status = st}
                        shows(S) ==
                          /\ {v.next[k].id : k \in DOMAIN v.next} = S
                          /\ Len(v.next) = Cardinality(S)
                          /\ \A k \in DOMAIN v.next :
                               v.next[k].queue_number = sessions[v.next[k].id].queue_number
                    IN CASE calls'[c].op = "list" -> shows(with("WAITING_CONSULTATION"))
                         [] calls'[c].op = "pharmacy" ->
                              LET med == with("WAITING_MEDICATION")
                              IN /\ IF med = {} THEN v.current = 0 ELSE v.current \in med
                                 /\ shows(med \ {v.current})
                         [] calls'[c].op = "doctor" ->
                              LET mine == {i \in Ids : sessions[i].doctor = v.doctor}
                                  called == mine \cap with("IN_CONSULTATION")
                              IN /\ IF called = {} THEN v.current = 0
                                    ELSE v.current \in called
                                 /\ shows(mine \cap with("WAITING_CONSULTATION"))]_vars

\* the pharmacy screen was read on the day after its current session was created
C28_Witness ==
  \E c \in Slots :
    /\ Returned(c, "pharmacy") /\ calls[c].result = Ok
    /\ calls[c].view.current \in Ids
    /\ sessions[calls[c].view.current].created_at.day < today

\* The row an add created is deleted while the add still waits for the mail
\* server (reachable when calls overlap)
DeletedBeforeMail ==
  \E c \in Slots :
    /\ ecalls[c].pc = "e_mail"
    /\ \E i \in DOMAIN employees : employees[i].nip = ecalls[c].nip /\ ~employees[i].live

\* C30: the NIP that add generates differs from the NIP of every employee in
\* the store, and add never ends in the failure of the unique constraint.
C30_NipIsFresh ==
  [][\A c \in Slots :
       /\ (ecalls[c].pc = "e_count" /\ ecalls'[c].pc = "e_email")
            => \A i \in LiveEmployees : employees[i].nip # ecalls'[c].nip
       /\ (ecalls[c].pc = "e_create" /\ ecalls'[c].pc = "done")
            => ecalls'[c].result # Unhandled(UniqueError)]_vars

====
